---- MODULE Spec2Model ----
(***************************************************************************)
(* A model of the k0s runtime of sealer (package k0s, Runtime) and of      *)
(* Engine.Pull of package buildah.  One call of one exported or internal   *)
(* method is followed from its entry to its                                *)
(* return; the goroutines an errgroup starts are interleaved step by step  *)
(* with the calling goroutine.                                             *)
(***************************************************************************)
EXTENDS Integers, Sequences, FiniteSets, TLC

VARIABLES
    call,            \* the method under way, "idle" before it is entered
    pc,              \* position of the calling goroutine
    cluster,         \* k.cluster: the ordered host entries of the Clusterfile
    role,            \* argument role of CopyJoinToken / JoinCommand
    tryTimes,        \* argument tryTimes of WaitSSHReady
    hosts,           \* argument host list (a sequence of IPs)
    srcPath,         \* local path handed to ssh Copy
    dstPath,         \* remote path handed to ssh Copy
    spawned,         \* number of eg.Go calls made by the for loop
    task,            \* per host: the goroutine started for it
    egErr,           \* errgroup's err, set once by the first failing goroutine
    ret,             \* the error the method returned
    flaky,           \* environment: the hosts on which an ssh step may fail
    controllerReads, \* paths read from the controller's file system
    hostFiles,       \* <<host, path>> files written on remote hosts
    regConfig,       \* k.RegConfig
    vlog,            \* k.Vlog
    checked,         \* whether checkList has run in this call
    retVal,          \* the value returned beside the error
    log,             \* messages written with logrus.Infof
    prepared,        \* hosts prepared for a join
    tokenFetches,    \* join tokens fetched from master0
    remoteCmds,      \* <<host, command>> commands run on remote hosts
    stdout,          \* what the version command wrote to its stdout
    pullOpts,        \* argument opts of Engine.Pull, with what its checks find
    pulls,           \* calls of buildah.Pull made
    metadata,        \* the runtime.Metadata built by getClusterMetadata
    entered          \* the internal routines entered

\* the variables of Pull, getClusterMetadata and the delete wrappers
extVars == <<pullOpts, pulls, metadata, entered>>

\* the variables outside the errgroup fan-out
rtVars == <<regConfig, vlog, checked, retVal, log, prepared, tokenFetches,
            remoteCmds, stdout, extVars>>

vars == <<call, pc, cluster, role, tryTimes, hosts, srcPath, dstPath, spawned,
          task, egErr, ret, flaky, controllerReads, hostFiles, rtVars>>

----------------------------------------------------------------------------
(* Bounds of the model *)

MaxHosts == 2
MaxTry == 2
MaxLen == 3
WideHosts == 17

----------------------------------------------------------------------------
(* Constants of package k0s *)

ControllerRole == "controller"
WorkerRole == "worker"
DefaultK0sControllerJoin == "/etc/k0s/controller"
DefaultK0sWorkerJoin == "/etc/k0s/worker"
DefaultK0sConfigPath == "/etc/k0s/k0s.yaml"
ExternalCRI == "remote:/run/containerd/containerd.sock"

\* role strings a caller may pass: the two known roles and two unknown ones
Roles == {ControllerRole, WorkerRole, "master", ""}

----------------------------------------------------------------------------
(* Hosts, clusters, errors *)

Master0 == 0
NoHost == -1

\* the host lists a caller passes: n new hosts, n = 0 .. MaxHosts
HostLists == {[i \in 1..n |-> i] : n \in 0..MaxHosts}

Range(s) == {s[i] : i \in DOMAIN s}

\* a Clusterfile with one master (master0) and no further host
DefaultCluster == <<[ip |-> Master0, role |-> "master"]>>

\* GetMaster0IP: the IP of the first master of the Clusterfile, nil without one
Masters(c) == SelectSeq(c, LAMBDA e : e.role = "master")
GetMaster0IP(c) == IF Len(Masters(c)) = 0 THEN NoHost ELSE Masters(c)[1].ip

\* registry.GetConfig(mountDir, master0IP): the registry of the cluster image,
\* served from the given IP unless the image says otherwise
NoRegConfig == [ip |-> NoHost, domain |-> "", port |-> ""]
GetConfig(ip) == [ip |-> ip, domain |-> "sea.hub", port |-> "5000"]

NoErr == [kind |-> "nil", host |-> NoHost]
Err(kind, h) == [kind |-> kind, host |-> h]

\* the goroutine of one host: st is its position, i the loop counter of
\* WaitSSHReady, err its return value, pings / copies the ssh calls it made,
\* last the outcome of its latest ping
NoTask == [st |-> "none", i |-> 0, err |-> NoErr, pings |-> 0, copies |-> 0,
           last |-> "none"]

\* outcomes of an ssh step on host h
StepOutcomes(h) == IF h \in flaky THEN {"ok", "fail"} ELSE {"ok"}
PingOutcomes(h) == IF h \in flaky THEN {"ok", "unreachable", "auth"} ELSE {"ok"}

----------------------------------------------------------------------------
(* errgroup *)

\* eg.Go(f): start the goroutine of host h at position st
EgGo(h, st) ==
    /\ task' = [task EXCEPT ![h].st = st]
    /\ spawned' = spawned + 1

\* the goroutine of host h returns e; the first non-nil error is kept
EgDone(t, h, e) ==
    /\ task' = [t EXCEPT ![h].st = "done", ![h].err = e]
    /\ egErr' = IF e # NoErr /\ egErr = NoErr THEN e ELSE egErr

\* eg.Wait() returns once every started goroutine has returned
EgWaitReady == \A h \in DOMAIN task : task[h].st \in {"none", "done"}

InFlight == {h \in DOMAIN task : task[h].st \notin {"none", "done"}}

----------------------------------------------------------------------------
(* ssh.Interface: Copy(host, localPath, remotePath) reads localPath on the *)
(* machine that runs sealer and, when it succeeds, writes remotePath on    *)
(* host.                                                                   *)

SSHCopy(h, local, remote, outcome) ==
    /\ controllerReads' = controllerReads \cup {local}
    /\ hostFiles' = IF outcome = "ok" THEN hostFiles \cup {<<h, remote>>}
                    ELSE hostFiles

----------------------------------------------------------------------------
(* sendFileToHosts *)

Enter(name, hs) ==
    /\ call = "idle"
    /\ call' = name
    /\ hosts' = hs
    /\ task' = [h \in Range(hs) |-> NoTask]
    /\ spawned' = 0
    /\ egErr' = NoErr

sendFileToHosts(hs) ==
    /\ Enter("sendFileToHosts", hs)
    /\ pc' = "loop"
    /\ srcPath' = "/src"
    /\ dstPath' = "/dst"
    /\ flaky' = Range(hs)
    /\ UNCHANGED <<rtVars, cluster, role, tryTimes, ret, controllerReads, hostFiles>>

SendFileGo ==
    /\ call = "sendFileToHosts"
    /\ pc = "loop"
    /\ spawned < Len(hosts)
    /\ EgGo(hosts[spawned + 1], "start")
    /\ UNCHANGED <<rtVars, call, pc, cluster, role, tryTimes, hosts, srcPath, dstPath,
                   egErr, ret, flaky, controllerReads, hostFiles>>

SendFileGetClient(h) ==
    /\ call = "sendFileToHosts"
    /\ task[h].st = "start"
    /\ \E o \in StepOutcomes(h) :
          IF o = "ok"
          THEN /\ task' = [task EXCEPT ![h].st = "client"]
               /\ UNCHANGED egErr
          ELSE EgDone(task, h, Err("send_client", h))
    /\ UNCHANGED <<rtVars, call, pc, cluster, role, tryTimes, hosts, srcPath, dstPath,
                   spawned, ret, flaky, controllerReads, hostFiles>>

SendFileCopy(h) ==
    /\ call = "sendFileToHosts"
    /\ task[h].st = "client"
    /\ \E o \in StepOutcomes(h) :
          /\ SSHCopy(h, srcPath, dstPath, o)
          /\ EgDone([task EXCEPT ![h].copies = @ + 1], h,
                    IF o = "ok" THEN NoErr ELSE Err("send_copy", h))
    /\ UNCHANGED <<rtVars, call, pc, cluster, role, tryTimes, hosts, srcPath, dstPath,
                   spawned, ret, flaky>>

\* the return taken without waiting for the goroutines
SendFileNoWait ==
    /\ call = "sendFileToHosts"
    /\ pc = "loop"
    /\ spawned = Len(hosts)
    /\ ret' = egErr
    /\ pc' = "returned"
    /\ UNCHANGED <<rtVars, call, cluster, role, tryTimes, hosts, srcPath, dstPath,
                   spawned, task, egErr, flaky, controllerReads, hostFiles>>

SendFileWait ==
    /\ call = "sendFileToHosts"
    /\ pc = "loop"
    /\ spawned = Len(hosts)
    /\ EgWaitReady
    /\ ret' = egErr
    /\ pc' = "returned"
    /\ UNCHANGED <<rtVars, call, cluster, role, tryTimes, hosts, srcPath, dstPath,
                   spawned, task, egErr, flaky, controllerReads, hostFiles>>

----------------------------------------------------------------------------
(* WaitSSHReady *)

\* tryTimes values a caller passes, a negative one included
TryTimesSet == (0 - 1)..MaxTry

WaitSSHReady(n, hs) ==
    /\ Enter("WaitSSHReady", hs)
    /\ pc' = "loop"
    /\ tryTimes' = n
    /\ flaky' = Range(hs)
    /\ UNCHANGED <<rtVars, cluster, role, srcPath, dstPath, ret, controllerReads,
                   hostFiles>>

WaitSSHGo ==
    /\ call = "WaitSSHReady"
    /\ pc = "loop"
    /\ spawned < Len(hosts)
    /\ EgGo(hosts[spawned + 1], "start")
    /\ UNCHANGED <<rtVars, call, pc, cluster, role, tryTimes, hosts, srcPath, dstPath,
                   egErr, ret, flaky, controllerReads, hostFiles>>

\* the loop entered once more: i <= tryTimes for i < tryTimes
WaitSSHGetClientOnceMore(h) ==
    /\ call = "WaitSSHReady"
    /\ task[h].st = "start"
    /\ task[h].i <= tryTimes
    /\ \E o \in StepOutcomes(h) :
          IF o = "ok"
          THEN /\ task' = [task EXCEPT ![h].st = "client"]
               /\ UNCHANGED egErr
          ELSE EgDone(task, h, Err("client", h))
    /\ UNCHANGED <<rtVars, call, pc, cluster, role, tryTimes, hosts, srcPath, dstPath,
                   spawned, ret, flaky, controllerReads, hostFiles>>

\* loop condition true, getHostSSHClient(host)
WaitSSHGetClient(h) ==
    /\ call = "WaitSSHReady"
    /\ task[h].st = "start"
    /\ task[h].i < tryTimes
    /\ \E o \in StepOutcomes(h) :
          IF o = "ok"
          THEN /\ task' = [task EXCEPT ![h].st = "client"]
               /\ UNCHANGED egErr
          ELSE EgDone(task, h, Err("client", h))
    /\ UNCHANGED <<rtVars, call, pc, cluster, role, tryTimes, hosts, srcPath, dstPath,
                   spawned, ret, flaky, controllerReads, hostFiles>>

\* sshClient.Ping(host): nil ends the goroutine, an error leads to the sleep
WaitSSHPing(h) ==
    /\ call = "WaitSSHReady"
    /\ task[h].st = "client"
    /\ \E o \in PingOutcomes(h) :
          LET t == [task EXCEPT ![h].pings = @ + 1, ![h].last = o]
          IN  IF o = "ok"
              THEN EgDone(t, h, NoErr)
              ELSE /\ task' = [t EXCEPT ![h].st = "sleep"]
                   /\ UNCHANGED egErr
    /\ UNCHANGED <<rtVars, call, pc, cluster, role, tryTimes, hosts, srcPath, dstPath,
                   spawned, ret, flaky, controllerReads, hostFiles>>

\* time.Sleep(i seconds), then i++
WaitSSHSleep(h) ==
    /\ call = "WaitSSHReady"
    /\ task[h].st = "sleep"
    /\ task' = [task EXCEPT ![h].st = "start", ![h].i = @ + 1]
    /\ UNCHANGED <<rtVars, call, pc, cluster, role, tryTimes, hosts, srcPath, dstPath,
                   spawned, egErr, ret, flaky, controllerReads, hostFiles>>

\* the loop left one round late: i > tryTimes for i >= tryTimes
WaitSSHTimeoutLate(h) ==
    /\ call = "WaitSSHReady"
    /\ task[h].st = "start"
    /\ task[h].i > tryTimes
    /\ EgDone(task, h, Err("timeout", h))
    /\ UNCHANGED <<rtVars, call, pc, cluster, role, tryTimes, hosts, srcPath, dstPath,
                   spawned, ret, flaky, controllerReads, hostFiles>>

\* loop condition false: the timeout error, which names the host
WaitSSHTimeout(h) ==
    /\ call = "WaitSSHReady"
    /\ task[h].st = "start"
    /\ ~(task[h].i < tryTimes)
    /\ EgDone(task, h, Err("timeout", h))
    /\ UNCHANGED <<rtVars, call, pc, cluster, role, tryTimes, hosts, srcPath, dstPath,
                   spawned, ret, flaky, controllerReads, hostFiles>>

WaitSSHWait ==
    /\ call = "WaitSSHReady"
    /\ pc = "loop"
    /\ spawned = Len(hosts)
    /\ EgWaitReady
    /\ ret' = egErr
    /\ pc' = "returned"
    /\ UNCHANGED <<rtVars, call, cluster, role, tryTimes, hosts, srcPath, dstPath,
                   spawned, task, egErr, flaky, controllerReads, hostFiles>>

----------------------------------------------------------------------------
(* CopyJoinToken *)

\* the switch with the worker path in its controller case
JoinCertPathAlwaysWorker(r) ==
    CASE r = ControllerRole -> DefaultK0sWorkerJoin
      [] r = WorkerRole -> DefaultK0sWorkerJoin
      [] OTHER -> DefaultK0sWorkerJoin

\* the switch on role
JoinCertPath(r) ==
    CASE r = ControllerRole -> DefaultK0sControllerJoin
      [] r = WorkerRole -> DefaultK0sWorkerJoin
      [] OTHER -> DefaultK0sWorkerJoin

\* entry: getHostSSHClient(master0), then the switch; fl is the set of hosts
\* on which the environment may fail a copy
CopyJoinToken(r, hs, fl) ==
    /\ Enter("CopyJoinToken", hs)
    /\ role' = r
    /\ flaky' = fl
    /\ \E o \in {"ok", "fail"} :
          IF o = "ok"
          THEN /\ pc' = "loop"
               /\ srcPath' = JoinCertPath(r)
               /\ dstPath' = JoinCertPath(r)
               /\ ret' = ret
          ELSE /\ pc' = "returned"
               /\ ret' = Err("client", Master0)
               /\ UNCHANGED <<rtVars, srcPath, dstPath>>
    /\ UNCHANGED <<rtVars, cluster, tryTimes, controllerReads, hostFiles>>

\* eg.Go: the goroutine shares the client of master0 and starts at the copy
CopyJoinTokenGo ==
    /\ call = "CopyJoinToken"
    /\ pc = "loop"
    /\ spawned < Len(hosts)
    /\ EgGo(hosts[spawned + 1], "client")
    /\ UNCHANGED <<rtVars, call, pc, cluster, role, tryTimes, hosts, srcPath, dstPath,
                   egErr, ret, flaky, controllerReads, hostFiles>>

\* ssh.Copy(host, joinCertPath, joinCertPath)
CopyJoinTokenCopy(h) ==
    /\ call = "CopyJoinToken"
    /\ task[h].st = "client"
    /\ \E o \in StepOutcomes(h) :
          /\ SSHCopy(h, srcPath, dstPath, o)
          /\ EgDone([task EXCEPT ![h].copies = @ + 1], h,
                    IF o = "ok" THEN NoErr ELSE Err("copy", h))
    /\ UNCHANGED <<rtVars, call, pc, cluster, role, tryTimes, hosts, srcPath, dstPath,
                   spawned, ret, flaky>>

\* after the loop: return nil, without eg.Wait()
CopyJoinTokenReturn ==
    /\ call = "CopyJoinToken"
    /\ pc = "loop"
    /\ spawned = Len(hosts)
    /\ ret' = NoErr
    /\ pc' = "returned"
    /\ UNCHANGED <<rtVars, call, cluster, role, tryTimes, hosts, srcPath, dstPath,
                   spawned, task, egErr, flaky, controllerReads, hostFiles>>

----------------------------------------------------------------------------
(* JoinCommand *)

\* the variables of the errgroup fan-out
fanVars == <<tryTimes, hosts, srcPath, dstPath, spawned, task, egErr, flaky,
             controllerReads, hostFiles>>

\* one shell command of a plan, by its parts
Cmd(name, tokenFile, config, cri, repo) ==
    [name |-> name, tokenFile |-> tokenFile, config |-> config,
     criSocket |-> cri, repository |-> repo]

\* the map cmds with the worker's install step reading the controller token
JoinCmdsWrongToken(reg) ==
    [r \in {ControllerRole, WorkerRole} |->
        IF r = ControllerRole
        THEN << Cmd("mkdir -r /etc/k0s", "", "", "", ""),
                Cmd("k0s config create", "", DefaultK0sConfigPath, "", ""),
                Cmd("sed -i images repository", "", DefaultK0sConfigPath, "",
                    <<reg.domain, reg.port>>),
                Cmd("k0s install controller", DefaultK0sControllerJoin,
                    DefaultK0sConfigPath, ExternalCRI, ""),
                Cmd("k0s start", "", "", "", "") >>
        ELSE << Cmd("k0s install worker", DefaultK0sControllerJoin, "",
                    ExternalCRI, ""),
                Cmd("k0s start", "", "", "", "") >>]

\* the map cmds of JoinCommand
JoinCmds(reg) ==
    [r \in {ControllerRole, WorkerRole} |->
        IF r = ControllerRole
        THEN << Cmd("mkdir -r /etc/k0s", "", "", "", ""),
                Cmd("k0s config create", "", DefaultK0sConfigPath, "", ""),
                Cmd("sed -i images repository", "", DefaultK0sConfigPath, "",
                    <<reg.domain, reg.port>>),
                Cmd("k0s install controller", DefaultK0sControllerJoin,
                    DefaultK0sConfigPath, ExternalCRI, ""),
                Cmd("k0s start", "", "", "", "") >>
        ELSE << Cmd("k0s install worker", DefaultK0sWorkerJoin, "",
                    ExternalCRI, ""),
                Cmd("k0s start", "", "", "", "") >>]

\* v, ok := cmds[role]; a role that is no key of the map yields nil
JoinCommand(r, reg) ==
    IF r \in DOMAIN JoinCmds(reg) THEN JoinCmds(reg)[r] ELSE <<>>

JoinCommandCall(r) ==
    /\ call = "idle"
    /\ call' = "JoinCommand"
    /\ role' = r
    /\ retVal' = JoinCommand(r, regConfig)
    /\ pc' = "returned"
    /\ UNCHANGED <<extVars, cluster, ret, fanVars, regConfig, vlog, checked, log,
                   prepared, tokenFetches, remoteCmds, stdout>>

----------------------------------------------------------------------------
(* JoinMasters, JoinNodes *)

\* joinMasters / joinNodes: nothing to do for an empty list, otherwise
\* prepare the hosts, fetch a token from master0, apply the join plan
joinHosts(ips) ==
    IF Len(ips) = 0
    THEN /\ pc' = "returned"
         /\ ret' = NoErr
    ELSE /\ pc' = "prepare"
         /\ ret' = ret

joinMasters(ips) ==
    /\ role' = ControllerRole
    /\ joinHosts(ips)

joinNodes(ips) ==
    /\ role' = WorkerRole
    /\ joinHosts(ips)

\* JoinMasters handing joinMasters the masters of the Clusterfile instead of
\* the new ones
JoinMastersOfCluster(ips) ==
    /\ call = "idle"
    /\ call' = "JoinMasters"
    /\ hosts' = ips
    /\ log' = IF Len(ips) # 0 THEN log \cup {"will be added as master"}
              ELSE log
    /\ joinMasters([i \in 1..Len(Masters(cluster)) |-> Masters(cluster)[i].ip])
    /\ UNCHANGED <<extVars, cluster, tryTimes, srcPath, dstPath, spawned, task, egErr,
                   flaky, controllerReads, hostFiles, regConfig, vlog, checked,
                   retVal, prepared, tokenFetches, remoteCmds, stdout>>

JoinMasters(ips) ==
    /\ call = "idle"
    /\ call' = "JoinMasters"
    /\ hosts' = ips
    /\ log' = IF Len(ips) # 0 THEN log \cup {"will be added as master"}
              ELSE log
    /\ joinMasters(ips)
    /\ UNCHANGED <<extVars, cluster, tryTimes, srcPath, dstPath, spawned, task, egErr,
                   flaky, controllerReads, hostFiles, regConfig, vlog, checked,
                   retVal, prepared, tokenFetches, remoteCmds, stdout>>

JoinNodes(ips) ==
    /\ call = "idle"
    /\ call' = "JoinNodes"
    /\ hosts' = ips
    /\ log' = IF Len(ips) # 0 THEN log \cup {"will be added as worker"}
              ELSE log
    /\ joinNodes(ips)
    /\ UNCHANGED <<extVars, cluster, tryTimes, srcPath, dstPath, spawned, task, egErr,
                   flaky, controllerReads, hostFiles, regConfig, vlog, checked,
                   retVal, prepared, tokenFetches, remoteCmds, stdout>>

\* a step of the join fails: the join returns its error
JoinFail(kind) ==
    /\ pc' = "returned"
    /\ ret' = Err(kind, NoHost)

JoinPrepare ==
    /\ call \in {"JoinMasters", "JoinNodes"}
    /\ pc = "prepare"
    /\ \E o \in {"ok", "fail"} :
          IF o = "ok"
          THEN /\ prepared' = Range(hosts)
               /\ pc' = "token"
               /\ ret' = ret
          ELSE /\ JoinFail("prepare")
               /\ UNCHANGED prepared
    /\ UNCHANGED <<extVars, call, cluster, role, fanVars, regConfig, vlog, checked,
                   retVal, log, tokenFetches, remoteCmds, stdout>>

JoinFetchToken ==
    /\ call \in {"JoinMasters", "JoinNodes"}
    /\ pc = "token"
    /\ remoteCmds' = remoteCmds \cup {<<Master0, "k0s token create">>}
    /\ \E o \in {"ok", "fail"} :
          IF o = "ok"
          THEN /\ tokenFetches' = tokenFetches + 1
               /\ pc' = "apply"
               /\ ret' = ret
          ELSE /\ JoinFail("token")
               /\ UNCHANGED tokenFetches
    /\ UNCHANGED <<extVars, call, cluster, role, fanVars, regConfig, vlog, checked,
                   retVal, log, prepared, stdout>>

JoinApply ==
    /\ call \in {"JoinMasters", "JoinNodes"}
    /\ pc = "apply"
    /\ LET plan == JoinCommand(role, regConfig)
       IN  remoteCmds' = remoteCmds \cup
              {<<h, plan[i].name>> : h \in Range(hosts), i \in DOMAIN plan}
    /\ \E o \in {"ok", "fail"} :
          IF o = "ok"
          THEN /\ pc' = "returned"
               /\ ret' = NoErr
          ELSE JoinFail("join")
    /\ UNCHANGED <<extVars, call, cluster, role, fanVars, regConfig, vlog, checked,
                   retVal, log, prepared, tokenFetches, stdout>>

----------------------------------------------------------------------------
(* newK0sRuntime, checkList *)

\* the Clusterfiles a caller passes: with and without hosts, with and
\* without a master
Clusters ==
    { <<>>,
      <<[ip |-> Master0, role |-> "master"]>>,
      <<[ip |-> 1, role |-> "node"]>>,
      <<[ip |-> Master0, role |-> "master"], [ip |-> 1, role |-> "node"]>> }

checkList(c) ==
    IF Len(c) = 0 THEN Err("hosts spec cannot be empty", NoHost)
    ELSE IF GetMaster0IP(c) = NoHost
         THEN Err("master0 IP cannot be empty", NoHost)
         ELSE NoErr

\* k := &Runtime{cluster: cluster}
newK0sRuntime(c) ==
    /\ call = "idle"
    /\ call' = "newK0sRuntime"
    /\ cluster' = c
    /\ regConfig' = NoRegConfig
    /\ vlog' = 0
    /\ pc' = "GetConfig"
    /\ UNCHANGED <<extVars, role, ret, fanVars, checked, retVal, log, prepared,
                   tokenFetches, remoteCmds, stdout>>

\* k.RegConfig = registry.GetConfig(k.getImageMountDir(), k.cluster.GetMaster0IP())
NewRuntimeGetConfig ==
    /\ call = "newK0sRuntime"
    /\ pc = "GetConfig"
    /\ regConfig' = GetConfig(GetMaster0IP(cluster))
    /\ pc' = "checkList"
    /\ UNCHANGED <<extVars, call, cluster, role, ret, fanVars, vlog, checked, retVal,
                   log, prepared, tokenFetches, remoteCmds, stdout>>

\* if err := k.checkList(); err != nil { return nil, err }
NewRuntimeCheckList ==
    /\ call = "newK0sRuntime"
    /\ pc = "checkList"
    /\ checked' = TRUE
    /\ IF checkList(cluster) # NoErr
       THEN /\ ret' = checkList(cluster)
            /\ pc' = "returned"
       ELSE /\ ret' = ret
            /\ pc' = "setDebugLevel"
    /\ UNCHANGED <<extVars, call, cluster, role, fanVars, regConfig, vlog, retVal, log,
                   prepared, tokenFetches, remoteCmds, stdout>>

\* setDebugLevel(k); return nil, nil
NewRuntimeReturn ==
    /\ call = "newK0sRuntime"
    /\ pc = "setDebugLevel"
    /\ \E debug \in BOOLEAN : vlog' = IF debug THEN 6 ELSE vlog
    /\ ret' = NoErr
    /\ retVal' = <<>>
    /\ pc' = "returned"
    /\ UNCHANGED <<extVars, call, cluster, role, fanVars, regConfig, checked, log,
                   prepared, tokenFetches, remoteCmds, stdout>>

----------------------------------------------------------------------------
(* getKubeVersion *)

VersionCmd == "k0s version"

\* the characters of a version output: a letter, a digit, the build
\* separator, a blank and a newline
Chars == {"v", "1", "+", " ", "\n"}
Stdouts == UNION {[1..n -> Chars] : n \in 0..MaxLen}

\* strings.Split(s, "+")[0]: s up to its first "+", all of s without one
SplitFirst(s) ==
    LET plus == {i \in 1..Len(s) : s[i] = "+"}
    IN  IF plus = {} THEN s
        ELSE SubSeq(s, 1, (CHOOSE i \in plus : \A j \in plus : i <= j) - 1)

RuntimeFlag == "k0s"

\* where getKubeVersion goes on: back in getClusterMetadata, or returned
VersionDone(c) == IF c = "getClusterMetadata" THEN "gotVersion" ELSE "returned"

\* ssh, err := k.getHostSSHClient(k.cluster.GetMaster0IP())
KubeVersionClient(c) ==
    \E o \in {"ok", "fail"} :
       IF o = "ok"
       THEN /\ pc' = "Cmd"
            /\ UNCHANGED <<ret, retVal>>
       ELSE /\ pc' = VersionDone(c)
            /\ ret' = Err("client", GetMaster0IP(cluster))
            /\ retVal' = <<>>

getKubeVersion ==
    /\ call = "idle"
    /\ call' = "getKubeVersion"
    /\ KubeVersionClient("getKubeVersion")
    /\ UNCHANGED <<extVars, cluster, role, fanVars, regConfig, vlog, checked, log,
                   prepared, tokenFetches, remoteCmds, stdout>>

\* bytes, err := ssh.Cmd(master0, VersionCmd); the split of its output
KubeVersionCmd ==
    /\ call \in {"getKubeVersion", "getClusterMetadata"}
    /\ pc = "Cmd"
    /\ remoteCmds' = remoteCmds \cup {<<GetMaster0IP(cluster), VersionCmd>>}
    /\ pc' = VersionDone(call)
    /\ \E o \in {"ok", "fail"} :
          IF o = "ok"
          THEN \E out \in Stdouts :
                  /\ stdout' = out
                  /\ retVal' = SplitFirst(out)
                  /\ ret' = NoErr
          ELSE /\ ret' = Err("cmd", GetMaster0IP(cluster))
               /\ retVal' = <<>>
               /\ UNCHANGED stdout
    /\ UNCHANGED <<extVars, call, cluster, role, fanVars, regConfig, vlog, checked, log,
                   prepared, tokenFetches>>

----------------------------------------------------------------------------
(* getClusterMetadata *)

NoMetadata == [Version |-> <<>>, ClusterRuntime |-> ""]

\* metadata := &runtime.Metadata{}; version, err := k.getKubeVersion()
getClusterMetadata ==
    /\ call = "idle"
    /\ call' = "getClusterMetadata"
    /\ metadata' = NoMetadata
    /\ KubeVersionClient("getClusterMetadata")
    /\ UNCHANGED <<cluster, role, fanVars, regConfig, vlog, checked, log,
                   prepared, tokenFetches, remoteCmds, stdout, pullOpts, pulls,
                   entered>>

\* the return that leaves ClusterRuntime unset
MetadataReturnNoRuntime ==
    /\ call = "getClusterMetadata"
    /\ pc = "gotVersion"
    /\ metadata' = IF ret # NoErr THEN metadata
                   ELSE [Version |-> retVal, ClusterRuntime |-> ""]
    /\ pc' = "returned"
    /\ UNCHANGED <<call, cluster, role, fanVars, regConfig, vlog, checked, log,
                   prepared, tokenFetches, remoteCmds, stdout, pullOpts, pulls,
                   entered, ret, retVal>>

\* if err != nil { return metadata, err }; Version and ClusterRuntime set
MetadataReturn ==
    /\ call = "getClusterMetadata"
    /\ pc = "gotVersion"
    /\ metadata' = IF ret # NoErr THEN metadata
                   ELSE [Version |-> retVal, ClusterRuntime |-> RuntimeFlag]
    /\ pc' = "returned"
    /\ UNCHANGED <<call, cluster, role, fanVars, regConfig, vlog, checked, log,
                   prepared, tokenFetches, remoteCmds, stdout, pullOpts, pulls,
                   entered, ret, retVal>>

----------------------------------------------------------------------------
(* Engine.Pull (package buildah) *)

\* define.PolicyMap of buildah: the pull policies by name
PolicyMap ==
    [p \in {"missing", "always", "never", "ifnewer"} |-> p]

\* the options a caller passes, with what auth.CheckAuthFile finds for the
\* configured auth file
PullOptions ==
    [Image : {"", "img"}, Platform : {"linux/amd64", "bogus//"},
     PullPolicy : {"missing", "always", "never", "ifnewer", "sometimes", ""},
     Quiet : BOOLEAN, authFileOk : BOOLEAN]

NoPullOpts ==
    [Image |-> "", Platform |-> "", PullPolicy |-> "", Quiet |-> FALSE,
     authFileOk |-> FALSE]

\* parse.Platform: whether the platform string parses
PlatformParses(p) == p = "linux/amd64"

\* the variables Pull leaves alone
notPull == <<cluster, role, fanVars, regConfig, vlog, checked, log, prepared,
             tokenFetches, remoteCmds, stdout, metadata, entered>>

PullReturn(e) ==
    /\ pc' = "returned"
    /\ ret' = e

\* if len(opts.Image) == 0 { return error }
Pull(opts) ==
    /\ call = "idle"
    /\ call' = "Pull"
    /\ pullOpts' = opts
    /\ IF Len(opts.Image) = 0
       THEN PullReturn(Err("an image name must be specified", NoHost))
       ELSE /\ pc' = "CheckAuthFile"
            /\ ret' = ret
    /\ UNCHANGED <<notPull, retVal, pulls>>

\* auth.CheckAuthFile(systemCxt.AuthFilePath)
PullCheckAuthFile ==
    /\ call = "Pull"
    /\ pc = "CheckAuthFile"
    /\ IF ~pullOpts.authFileOk
       THEN PullReturn(Err("auth file", NoHost))
       ELSE /\ pc' = "Platform"
            /\ ret' = ret
    /\ UNCHANGED <<call, notPull, retVal, pullOpts, pulls>>

\* parse.Platform(opts.Platform)
PullParsePlatform ==
    /\ call = "Pull"
    /\ pc = "Platform"
    /\ IF ~PlatformParses(pullOpts.Platform)
       THEN PullReturn(Err("failed to init platform", NoHost))
       ELSE /\ pc' = "PolicyMap"
            /\ ret' = ret
    /\ UNCHANGED <<call, notPull, retVal, pullOpts, pulls>>

\* the lookup with its ok result ignored
PullPolicyUnchecked ==
    /\ call = "Pull"
    /\ pc = "PolicyMap"
    /\ pc' = "buildah.Pull"
    /\ ret' = ret
    /\ UNCHANGED <<call, notPull, retVal, pullOpts, pulls>>

\* policy, ok := define.PolicyMap[opts.PullPolicy]
PullPolicyLookup ==
    /\ call = "Pull"
    /\ pc = "PolicyMap"
    /\ IF pullOpts.PullPolicy \notin DOMAIN PolicyMap
       THEN PullReturn(Err("unsupported pull policy", NoHost))
       ELSE /\ pc' = "buildah.Pull"
            /\ ret' = ret
    /\ UNCHANGED <<call, notPull, retVal, pullOpts, pulls>>

\* id, err := buildah.Pull(getContext(), opts.Image, options)
PullImage ==
    /\ call = "Pull"
    /\ pc = "buildah.Pull"
    /\ pulls' = pulls + 1
    /\ \E o \in {"ok", "fail"} :
          IF o = "ok"
          THEN /\ PullReturn(NoErr)
               /\ log' = log \cup {"image id"}
          ELSE /\ PullReturn(Err("pull", NoHost))
               /\ log' = log
    /\ UNCHANGED <<call, cluster, role, fanVars, regConfig, vlog, checked,
                   prepared, tokenFetches, remoteCmds, stdout, metadata,
                   entered, retVal, pullOpts>>

----------------------------------------------------------------------------
(* DeleteMasters, DeleteNodes *)

\* the variables the delete wrappers leave alone
notDelete == <<cluster, role, fanVars, regConfig, vlog, checked, retVal,
               prepared, tokenFetches, stdout, pullOpts, pulls, metadata>>

\* deleteMasters / deleteNodes is entered
deleteEnter(name) ==
    /\ entered' = entered \cup {name}
    /\ pc' = "delete"
    /\ ret' = ret

\* DeleteMasters without the test of the list's length
DeleteMastersAlways(ips) ==
    /\ call = "idle"
    /\ call' = "DeleteMasters"
    /\ hosts' = ips
    /\ log' = log \cup {"master will be deleted"}
    /\ deleteEnter("deleteMasters")
    /\ UNCHANGED <<cluster, role, tryTimes, srcPath, dstPath, spawned, task,
                   egErr, flaky, controllerReads, hostFiles, regConfig, vlog,
                   checked, retVal, prepared, tokenFetches, stdout, pullOpts,
                   pulls, metadata, remoteCmds>>

DeleteMasters(ips) ==
    /\ call = "idle"
    /\ call' = "DeleteMasters"
    /\ hosts' = ips
    /\ IF Len(ips) # 0
       THEN /\ log' = log \cup {"master will be deleted"}
            /\ deleteEnter("deleteMasters")
       ELSE /\ pc' = "returned"
            /\ ret' = NoErr
            /\ UNCHANGED <<log, entered>>
    /\ UNCHANGED <<cluster, role, tryTimes, srcPath, dstPath, spawned, task,
                   egErr, flaky, controllerReads, hostFiles, regConfig, vlog,
                   checked, retVal, prepared, tokenFetches, stdout, pullOpts,
                   pulls, metadata, remoteCmds>>

DeleteNodes(ips) ==
    /\ call = "idle"
    /\ call' = "DeleteNodes"
    /\ hosts' = ips
    /\ IF Len(ips) # 0
       THEN /\ log' = log \cup {"worker will be deleted"}
            /\ deleteEnter("deleteNodes")
       ELSE /\ pc' = "returned"
            /\ ret' = NoErr
            /\ UNCHANGED <<log, entered>>
    /\ UNCHANGED <<cluster, role, tryTimes, srcPath, dstPath, spawned, task,
                   egErr, flaky, controllerReads, hostFiles, regConfig, vlog,
                   checked, retVal, prepared, tokenFetches, stdout, pullOpts,
                   pulls, metadata, remoteCmds>>

\* deleteMasters / deleteNodes: every host is drained through master0 and
\* then reset, the failures collected
DeleteHosts ==
    /\ call \in {"DeleteMasters", "DeleteNodes"}
    /\ pc = "delete"
    /\ remoteCmds' = remoteCmds
          \cup {<<Master0, "drain">>}
          \cup {<<h, "k0s reset">> : h \in Range(hosts)}
    /\ \E o \in {"ok", "fail"} :
          ret' = IF o = "ok" THEN NoErr ELSE Err("delete", NoHost)
    /\ pc' = "returned"
    /\ UNCHANGED <<call, notDelete, log, entered>>

----------------------------------------------------------------------------

Init ==
    /\ call = "idle"
    /\ pc = "idle"
    /\ cluster = DefaultCluster
    /\ role = ""
    /\ tryTimes = 0
    /\ hosts = <<>>
    /\ srcPath = ""
    /\ dstPath = ""
    /\ spawned = 0
    /\ task = <<>>
    /\ egErr = NoErr
    /\ ret = NoErr
    /\ flaky = {}
    /\ controllerReads = {}
    /\ hostFiles = {}
    /\ regConfig = GetConfig(Master0)
    /\ vlog = 0
    /\ checked = FALSE
    /\ retVal = <<>>
    /\ log = {}
    /\ prepared = {}
    /\ tokenFetches = 0
    /\ remoteCmds = {}
    /\ stdout = <<>>
    /\ pullOpts = NoPullOpts
    /\ pulls = 0
    /\ metadata = NoMetadata
    /\ entered = {}

Next ==
    \/ \E hs \in HostLists : sendFileToHosts(hs)
    \/ SendFileGo
    \/ \E h \in DOMAIN task : SendFileGetClient(h)
    \/ \E h \in DOMAIN task : SendFileCopy(h)
    \/ SendFileWait
    \/ \E n \in TryTimesSet, hs \in HostLists : WaitSSHReady(n, hs)
    \/ WaitSSHGo
    \/ \E h \in DOMAIN task : WaitSSHGetClient(h)
    \/ \E h \in DOMAIN task : WaitSSHPing(h)
    \/ \E h \in DOMAIN task : WaitSSHSleep(h)
    \/ \E h \in DOMAIN task : WaitSSHTimeout(h)
    \/ WaitSSHWait
    \/ \E r \in Roles, hs \in HostLists : CopyJoinToken(r, hs, Range(hs))
    \/ CopyJoinTokenGo
    \/ \E h \in DOMAIN task : CopyJoinTokenCopy(h)
    \/ CopyJoinTokenReturn
    \/ \E r \in Roles : JoinCommandCall(r)
    \/ \E ips \in HostLists : JoinMasters(ips)
    \/ \E ips \in HostLists : JoinNodes(ips)
    \/ JoinPrepare
    \/ JoinFetchToken
    \/ JoinApply
    \/ \E c \in Clusters : newK0sRuntime(c)
    \/ NewRuntimeGetConfig
    \/ NewRuntimeCheckList
    \/ NewRuntimeReturn
    \/ getKubeVersion
    \/ KubeVersionCmd
    \/ getClusterMetadata
    \/ MetadataReturn
    \/ \E opts \in PullOptions : Pull(opts)
    \/ PullCheckAuthFile
    \/ PullParsePlatform
    \/ PullPolicyLookup
    \/ PullImage
    \/ \E ips \in HostLists : DeleteMasters(ips)
    \/ \E ips \in HostLists : DeleteNodes(ips)
    \/ DeleteHosts

Spec == Init /\ [][Next]_vars

----------------------------------------------------------------------------
(* A fan-out over more hosts than MaxHosts: CopyJoinToken for WideHosts    *)
(* hosts, of which only the first may fail its copy.                       *)

WideList == [i \in 1..WideHosts |-> i]

NextWide ==
    \/ CopyJoinToken(WorkerRole, WideList, {1})
    \/ CopyJoinTokenGo
    \/ \E h \in DOMAIN task : CopyJoinTokenCopy(h)
    \/ CopyJoinTokenReturn

SpecWide == Init /\ [][NextWide]_vars

----------------------------------------------------------------------------
(* WaitSSHReady alone, with every step of the calling goroutine and of the *)
(* per-host goroutines taken once it can be: the Go scheduler runs every   *)
(* goroutine, and each client creation, ping and sleep returns.            *)

WaitSSHSteps ==
    \/ WaitSSHGo
    \/ \E h \in DOMAIN task : WaitSSHGetClient(h)
    \/ \E h \in DOMAIN task : WaitSSHPing(h)
    \/ \E h \in DOMAIN task : WaitSSHSleep(h)
    \/ \E h \in DOMAIN task : WaitSSHTimeout(h)
    \/ WaitSSHWait

NextWaitSSH ==
    \/ \E n \in TryTimesSet, hs \in HostLists : WaitSSHReady(n, hs)
    \/ WaitSSHSteps

SpecWaitSSH == Init /\ [][NextWaitSSH]_vars /\ WF_vars(WaitSSHSteps)

----------------------------------------------------------------------------
(* Properties *)

\* the hosts whose goroutine returned an error
Failed == {h \in DOMAIN task : task[h].err # NoErr}

\* the hosts an error value identifies: the one host whose goroutine made it
Exposed(e) == IF e = NoErr THEN {} ELSE {e.host}

IsSpace(c) == c \in {" ", "\n"}

\* strings.TrimSpace
TrimSpace(s) ==
    LET keep == {i \in 1..Len(s) : ~IsSpace(s[i])}
    IN  IF keep = {} THEN <<>>
        ELSE SubSeq(s, CHOOSE i \in keep : \A j \in keep : i <= j,
                       CHOOSE i \in keep : \A j \in keep : j <= i)

TokenPaths == {DefaultK0sControllerJoin, DefaultK0sWorkerJoin}

\* C1: once CopyJoinToken has returned, no per-host copy is still in flight,
\* and if the copy to some host failed the returned error is not nil.
C1_CopyJoinTokenWaits ==
    (call = "CopyJoinToken" /\ pc = "returned") =>
        /\ InFlight = {}
        /\ (Failed # {} => ret # NoErr)

\* C2: for a role that is neither controller nor worker, CopyJoinToken
\* copies the worker join-token path and JoinCommand returns the plan it
\* returns for the worker role.
C2_UnknownRoleIsWorker ==
    role \notin {ControllerRole, WorkerRole} =>
        /\ (call = "CopyJoinToken" /\ pc = "loop") =>
              (srcPath = DefaultK0sWorkerJoin /\ dstPath = DefaultK0sWorkerJoin)
        /\ (call = "JoinCommand" /\ pc = "returned") =>
              retVal = JoinCommand(WorkerRole, regConfig)

C4_AtMost16InFlight == Cardinality(InFlight) <= 16

\* C5: when sendFileToHosts or WaitSSHReady has returned, the hosts its
\* error identifies are exactly the hosts whose task failed.
C5_ExactlyTheFailedHosts ==
    (call \in {"sendFileToHosts", "WaitSSHReady"} /\ pc = "returned") =>
        Exposed(ret) = Failed

\* C6: in sendFileToHosts and WaitSSHReady, once a host's task has returned
\* an error no host issues a further copy or ping, and the error returned is
\* that first error.
C6_FailFast ==
    [][(call \in {"sendFileToHosts", "WaitSSHReady"} /\ egErr # NoErr) =>
          /\ \A h \in DOMAIN task :
                /\ task'[h].copies = task[h].copies
                /\ task'[h].pings = task[h].pings
          /\ (pc' = "returned" => ret' = egErr)]_vars

\* C7: during CopyJoinToken no join-token path is read from the file system
\* of the controller.
C7_TokenNotOnController ==
    call = "CopyJoinToken" => controllerReads \cap TokenPaths = {}

\* C8: the version getKubeVersion returns holds no "+", has no leading or
\* trailing whitespace, and is the trimmed part of stdout before its first "+".
C8_VersionTrimmedAndCut ==
    (call = "getKubeVersion" /\ pc = "returned" /\ ret = NoErr) =>
        /\ \A i \in 1..Len(retVal) : retVal[i] # "+"
        /\ (retVal # <<>> =>
               ~IsSpace(retVal[1]) /\ ~IsSpace(retVal[Len(retVal)]))
        /\ retVal = TrimSpace(SplitFirst(stdout))

\* C9: in WaitSSHReady a host whose latest ping was rejected for its
\* credentials is not pinged again, and no host is pinged more than once plus
\* 3 retries.
C9_AuthNeverRetried ==
    [][call = "WaitSSHReady" =>
          \A h \in DOMAIN task :
             /\ (task[h].last = "auth" => task'[h].pings = task[h].pings)
             /\ task'[h].pings <= 1 + 3]_vars

\* C10: for a Clusterfile without hosts or without a master0, newK0sRuntime
\* returns an error, and it derives no registry configuration and runs no
\* remote command before checkList has been done.
C10_ValidationFirst ==
    (call = "newK0sRuntime" /\ checkList(cluster) # NoErr) =>
        /\ (pc = "returned" => ret # NoErr)
        /\ (~checked => (regConfig = NoRegConfig /\ remoteCmds = {}))

\* the positions of the install steps of a plan
InstallSteps(plan) ==
    {i \in DOMAIN plan :
        plan[i].name \in {"k0s install controller", "k0s install worker"}}

\* C11: the plan JoinCommand returns for the controller or the worker role
\* has exactly one install step, which installs that role, reads the role's
\* join-token path and names the external CRI socket, and "k0s start" is the
\* last step, after the install step.
C11_JoinPlanShape ==
    (call = "JoinCommand" /\ pc = "returned"
        /\ role \in {ControllerRole, WorkerRole}) =>
        /\ Cardinality(InstallSteps(retVal)) = 1
        /\ \A i \in InstallSteps(retVal) :
              /\ retVal[i].name = IF role = ControllerRole
                                  THEN "k0s install controller"
                                  ELSE "k0s install worker"
              /\ retVal[i].tokenFile = IF role = ControllerRole
                                       THEN DefaultK0sControllerJoin
                                       ELSE DefaultK0sWorkerJoin
              /\ retVal[i].criSocket = ExternalCRI
              /\ i < Len(retVal)
        /\ retVal[Len(retVal)].name = "k0s start"

C11_Witness ==
    /\ call = "JoinCommand"
    /\ pc = "returned"
    /\ role = ControllerRole
    /\ Len(retVal) = 5

\* what Pull checks before it pulls
PullValid(o) ==
    /\ o.Image # ""
    /\ o.authFileOk
    /\ PlatformParses(o.Platform)
    /\ o.PullPolicy \in {"missing", "always", "never", "ifnewer"}

WaitSSHReadyState ==
    call = "WaitSSHReady" =>
        /\ \A h \in DOMAIN task :
              /\ task[h].pings <= (IF tryTimes > 0 THEN tryTimes ELSE 0)
              /\ (task[h].last = "ok" => task[h].st = "done")
        /\ (pc = "returned" =>
              /\ (ret = NoErr <=> \A h \in DOMAIN task : task[h].last = "ok")
              /\ ((tryTimes <= 0 /\ Len(hosts) > 0) =>
                     /\ ret.kind = "timeout"
                     /\ \A h \in DOMAIN task : task[h].pings = 0)
              /\ (Len(hosts) = 0 => ret = NoErr))

\* C13: WaitSSHReady pings a host at most tryTimes times and not again after
\* a successful ping; it returns nil exactly if every host had a successful
\* ping; with tryTimes <= 0 and hosts it returns the timeout error without a
\* ping, and without hosts it returns nil.
C13_WaitSSHReadyPings ==
    /\ []WaitSSHReadyState
    /\ [][call = "WaitSSHReady" =>
            \A h \in DOMAIN task :
               task[h].last = "ok" => task'[h].pings = task[h].pings]_vars

C13_Witness ==
    /\ call = "WaitSSHReady"
    /\ pc = "returned"
    /\ tryTimes = MaxTry
    /\ Len(hosts) = MaxHosts
    /\ ret = NoErr
    /\ \E h \in DOMAIN task : task[h].pings = MaxTry

\* C14: getClusterMetadata runs commands on master0 only; without an error
\* the metadata holds the version read from master0 and the k0s runtime flag;
\* with the error of the ssh client or of the command, it returns that error
\* and metadata with an empty Version.
C14_MetadataFromMaster0 ==
    call = "getClusterMetadata" =>
        /\ \A c \in remoteCmds : c[1] = GetMaster0IP(cluster)
        /\ task = <<>>
        /\ (pc = "returned" /\ ret = NoErr) =>
              /\ metadata.Version = SplitFirst(stdout)
              /\ metadata.ClusterRuntime = RuntimeFlag
        /\ (pc = "returned" /\ ret # NoErr) =>
              /\ ret.kind \in {"client", "cmd"}
              /\ metadata.Version = <<>>

C14_Witness ==
    /\ call = "getClusterMetadata"
    /\ pc = "returned"
    /\ ret = NoErr
    /\ metadata.Version = <<"v", "1">>
    /\ remoteCmds = {<<Master0, VersionCmd>>}

C16_NoNilInstaller ==
    (call = "newK0sRuntime" /\ pc = "returned" /\ ret = NoErr) =>
        retVal # <<>>

\* C17: DeleteMasters and DeleteNodes with an empty IP list have returned nil,
\* no remote command was run and deleteMasters / deleteNodes was not entered.
C17_EmptyDeleteIsNoOp ==
    (call \in {"DeleteMasters", "DeleteNodes"} /\ Len(hosts) = 0) =>
        /\ pc = "returned"
        /\ ret = NoErr
        /\ remoteCmds = {}
        /\ entered = {}

C17_Witness ==
    /\ call = "DeleteMasters"
    /\ Len(hosts) = 0
    /\ pc = "returned"
    /\ ret = NoErr

\* C18: for the controller and the worker role, every file CopyJoinToken
\* writes on a host is at the path the install step of JoinCommand for that
\* role reads as its token file.
C18_TokenPathAgreement ==
    (call = "CopyJoinToken" /\ role \in {ControllerRole, WorkerRole}) =>
        LET plan == JoinCommand(role, regConfig)
        IN  /\ InstallSteps(plan) # {}
            /\ \A f \in hostFiles : \A i \in InstallSteps(plan) :
                  f[2] = plan[i].tokenFile
            /\ pc = "loop" =>
                  \A i \in InstallSteps(plan) : dstPath = plan[i].tokenFile

C18_Witness ==
    /\ call = "CopyJoinToken"
    /\ role = ControllerRole
    /\ \E h \in DOMAIN task : <<h, DefaultK0sControllerJoin>> \in hostFiles

\* C19: a call of WaitSSHReady leads to its return with every per-host
\* goroutine finished, whatever the pings answer.
C19_WaitSSHReadyTerminates ==
    (call = "WaitSSHReady") ~> (pc = "returned" /\ InFlight = {})

C19_Witness ==
    /\ call = "WaitSSHReady"
    /\ pc = "returned"
    /\ tryTimes = MaxTry
    /\ Len(hosts) = MaxHosts
    /\ \A h \in DOMAIN task :
          task[h].pings = MaxTry /\ task[h].err.kind = "timeout"

====
